---- MODULE Spec2Model ----
(***************************************************************************)
(* Model of src/server.js: the Express task API ("App_tareas").            *)
(*                                                                         *)
(* The module-level state of server.js is the id counter contadorId        *)
(* (line 48) and the identifier tareas.  The declaration of tareas         *)
(* (lines 26-47) is inside a block comment, so the identifier is never     *)
(* bound (TareasDeclarada is FALSE): evaluating it in a handler throws a   *)
(* ReferenceError, which Express turns into a 500 answer.  The handlers    *)
(* are translated whole, statement by statement, so that the point where   *)
(* each one throws, and what it has already done by then, is what the code *)
(* does.  The variable tareas is the array the identifier would name; no   *)
(* handler gets to read or write it while the identifier is unbound.       *)
(*                                                                         *)
(* JSON values are encoded as strings: a JSON string is itself, and the    *)
(* other values are "<undefined>", "<null>", "<true>", "<false>".  Ids are *)
(* integers.                                                               *)
(***************************************************************************)
EXTENDS Integers, Sequences, FiniteSets, TLC

VARIABLES
  tareas,      \* the array the identifier tareas would name
  contadorId,  \* let contadorId (line 48)
  req,         \* the last request: its route, req.params.id, and req.query or req.body
  res,         \* the answer to it: status and JSON body
  creadas,     \* history: the number of POST /api/tareas answered 201
  previo       \* history: tareas and contadorId as the last request found them

vars == <<tareas, contadorId, req, res, creadas, previo>>

----------------------------------------------------------------------------
\* Bounds of the model.

\* Valid Create requests are modelled until the counter reaches
\* SemillaId + MaxCreates.
MaxCreates == 3

----------------------------------------------------------------------------
\* JavaScript values.

Undefined == "<undefined>"
Null == "<null>"
True == "<true>"
False == "<false>"

\* !v is true
Falsy(v) == v \in {Undefined, Null, False, ""}

\* !v as a JSON value
Not(v) == IF Falsy(v) THEN True ELSE False

\* a || b
Or(a, b) == IF Falsy(a) THEN b ELSE a

NaN == 0 - 1

\* parseInt(req.params.id): the leading decimal digits, NaN when there are none
parseInt(s) ==
  CASE s = "3" -> 3
    [] s = "4" -> 4
    [] s = "5" -> 5
    [] s = "4x" -> 4
    [] s = "9" -> 9
    [] OTHER -> NaN

\* a === b on numbers
IgualEstricto(a, b) == a # NaN /\ b # NaN /\ a = b

\* let contadorId = 3
SemillaId == 3

----------------------------------------------------------------------------
\* What a handler reads and answers.

\* Whether the identifier tareas is bound when a handler runs: its only
\* declaration, "let tareas = [...]", is inside the comment of lines 26-47, and
\* no statement of the file assigns to it.
TareasDeclarada == FALSE

\* Evaluating the identifier tareas succeeds only when it is bound.
Declarada == TareasDeclarada

\* The answer Express gives when a handler throws.
ErrorNoDefinida ==
  [status |-> 500, body |-> "ReferenceError: tareas is not defined"]

NoEncontrada == [status |-> 404, body |-> [error |-> "Tarea no encontrada"]]

\* tareas.findIndex(t => t.id === id), 1-based; 0 stands for -1
findIndex(ts, id) ==
  IF \E i \in 1..Len(ts) : IgualEstricto(ts[i].id, id)
  THEN CHOOSE i \in 1..Len(ts) :
         /\ IgualEstricto(ts[i].id, id)
         /\ \A j \in 1..(i - 1) : ~IgualEstricto(ts[j].id, id)
  ELSE 0

\* tareas.splice(index, 1) leaves the array without its index-th element
splice(ts, index) ==
  [i \in 1..(Len(ts) - 1) |-> IF i < index THEN ts[i] ELSE ts[i + 1]]

\* tareas.find(t => t.id === id): the index of the task found, 0 for undefined
find(ts, id) == findIndex(ts, id)

\* { ...tareas[index], ...req.body, id }
Mezcla(vieja, body, id) ==
  [c \in (DOMAIN vieja) \cup (DOMAIN body) \cup {"id"} |->
     IF c = "id" THEN id
     ELSE IF c \in DOMAIN body THEN body[c]
     ELSE vieja[c]]

\* The three filters of GET /api/tareas, applied in the order of the code.
Filtradas(ts, query) ==
  LET porCategoria ==
        IF ~Falsy(query.categoria)
        THEN SelectSeq(ts, LAMBDA t : t.categoria = query.categoria)
        ELSE ts
      porPrioridad ==
        IF ~Falsy(query.prioridad)
        THEN SelectSeq(porCategoria, LAMBDA t : t.prioridad = query.prioridad)
        ELSE porCategoria
      isCompletada == IF query.completada = "true" THEN True ELSE False
  IN  IF query.completada # Undefined
      THEN SelectSeq(porPrioridad, LAMBDA t : t.completada = isCompletada)
      ELSE porPrioridad

\* tareas.forEach(t => { if (!porCategoria[t.categoria]) porCategoria[t.categoria] = 0;
\*                       porCategoria[t.categoria]++ }), from the i-th task on
RECURSIVE ContarPorCategoria(_, _, _)
ContarPorCategoria(ts, i, acc) ==
  IF i > Len(ts) THEN acc
  ELSE LET c == ts[i].categoria
           antes == IF c \in DOMAIN acc THEN acc[c] ELSE 0
       IN  ContarPorCategoria(ts, i + 1,
             [k \in (DOMAIN acc) \cup {c} |-> IF k = c THEN antes + 1 ELSE acc[k]])

\* The stats object of GET /api/estadisticas.
Stats(ts) ==
  [total |-> Len(ts),
   completadas |-> Len(SelectSeq(ts, LAMBDA t : ~Falsy(t.completada))),
   pendientes |-> Len(SelectSeq(ts, LAMBDA t : Falsy(t.completada))),
   porCategoria |-> ContarPorCategoria(ts, 1, [k \in {} |-> 0])]

\* The validation with the test of prioridad left out.
FaltanCamposSinPrioridad(body) ==
  Falsy(body.titulo) \/ Falsy(body.categoria)

\* !titulo || !categoria || !prioridad
FaltanCampos(body) ==
  Falsy(body.titulo) \/ Falsy(body.categoria) \/ Falsy(body.prioridad)

FaltanCamposError ==
  [status |-> 400,
   body |-> [error |-> "Faltan campos requeridos: titulo, categoria, prioridad"]]

----------------------------------------------------------------------------
\* The requests the model sends.

\* req.params.id
IdParams == {"3", "4", "5", "9", "4x", "abc"}

\* new Date().toISOString()
Fechas == {"2024-01-01T00:00:00.000Z", "2024-01-02T00:00:00.000Z"}

\* req.query of GET /api/tareas; Undefined is a parameter that is not given
Consultas ==
  [categoria : {Undefined, "", "Personal"},
   prioridad : {Undefined, "media"},
   completada : {Undefined, "true", "false", "si"}]

\* req.body of POST /api/tareas; Undefined is a property that is not given
CuerposCrear ==
  [titulo : {Undefined, "", "Comprar leche"},
   descripcion : {Undefined, "2 litros"},
   categoria : {Undefined, Null, "Personal", "Trabajo"},
   prioridad : {Undefined, "", "media"}]

\* The value a PUT body gives a property it carries.
ValorNuevo(c) ==
  CASE c = "id" -> 9
    [] c = "titulo" -> "Comprar pan"
    [] c = "categoria" -> "Trabajo"
    [] c = "fecha" -> "1999-12-31T00:00:00.000Z"
    [] OTHER -> Null

\* req.body of PUT /api/tareas/:id: any subset of these properties
CamposCuerpo == {"id", "titulo", "categoria", "completada", "fecha"}

CuerpoActualizar(campos, completada) ==
  [c \in campos |-> IF c = "completada" THEN completada ELSE ValorNuevo(c)]

Foto == [tareas |-> tareas, contadorId |-> contadorId]

----------------------------------------------------------------------------
Init ==
  /\ tareas = <<>>
  /\ contadorId = SemillaId
  /\ req = [op |-> "ninguna", id |-> "", entrada |-> Undefined]
  /\ res = [status |-> 0, body |-> Undefined]
  /\ creadas = 0
  /\ previo = [tareas |-> <<>>, contadorId |-> SemillaId]

\* GET /api/tareas
Listar(query) ==
  /\ req' = [op |-> "Listar", id |-> "", entrada |-> query]
  /\ previo' = Foto
  /\ res' = IF Declarada
            THEN [status |-> 200, body |-> Filtradas(tareas, query)]
            ELSE ErrorNoDefinida
  /\ UNCHANGED <<tareas, contadorId, creadas>>

\* GET /api/tareas/:id
Obtener(idParam) ==
  LET id == parseInt(idParam)
  IN  /\ req' = [op |-> "Obtener", id |-> idParam, entrada |-> Undefined]
      /\ previo' = Foto
      /\ res' = IF ~Declarada THEN ErrorNoDefinida
                ELSE IF find(tareas, id) # 0
                THEN [status |-> 200, body |-> tareas[find(tareas, id)]]
                ELSE NoEncontrada
      /\ UNCHANGED <<tareas, contadorId, creadas>>

\* POST /api/tareas
Crear(body, ahora) ==
  /\ req' = [op |-> "Crear", id |-> "", entrada |-> body]
  /\ previo' = Foto
  /\ IF FaltanCampos(body)
     THEN /\ res' = FaltanCamposError
          /\ UNCHANGED <<tareas, contadorId, creadas>>
     ELSE LET nuevaTarea ==
                [id |-> contadorId,
                 titulo |-> body.titulo,
                 descripcion |-> Or(body.descripcion, ""),
                 categoria |-> body.categoria,
                 prioridad |-> body.prioridad,
                 completada |-> False,
                 fecha |-> ahora]
          IN  /\ contadorId < SemillaId + MaxCreates
              /\ contadorId' = contadorId + 1
              /\ IF Declarada
                 THEN /\ tareas' = Append(tareas, nuevaTarea)
                      /\ res' = [status |-> 201, body |-> nuevaTarea]
                      /\ creadas' = creadas + 1
                 ELSE /\ res' = ErrorNoDefinida
                      /\ UNCHANGED <<tareas, creadas>>

\* PUT /api/tareas/:id
Actualizar(idParam, body) ==
  LET id == parseInt(idParam)
      index == findIndex(tareas, id)
  IN  /\ req' = [op |-> "Actualizar", id |-> idParam, entrada |-> body]
      /\ previo' = Foto
      /\ IF ~Declarada
         THEN /\ res' = ErrorNoDefinida
              /\ UNCHANGED tareas
         ELSE IF index = 0
         THEN /\ res' = NoEncontrada
              /\ UNCHANGED tareas
         ELSE /\ tareas' = [tareas EXCEPT ![index] = Mezcla(tareas[index], body, id)]
              /\ res' = [status |-> 200, body |-> tareas'[index]]
      /\ UNCHANGED <<contadorId, creadas>>

\* PATCH /api/tareas/:id/toggle
Alternar(idParam) ==
  LET id == parseInt(idParam)
      i == find(tareas, id)
  IN  /\ req' = [op |-> "Alternar", id |-> idParam, entrada |-> Undefined]
      /\ previo' = Foto
      /\ IF ~Declarada
         THEN /\ res' = ErrorNoDefinida
              /\ UNCHANGED tareas
         ELSE IF i = 0
         THEN /\ res' = NoEncontrada
              /\ UNCHANGED tareas
         ELSE /\ tareas' = [tareas EXCEPT ![i].completada = Not(tareas[i].completada)]
              /\ res' = [status |-> 200, body |-> tareas'[i]]
      /\ UNCHANGED <<contadorId, creadas>>

\* DELETE /api/tareas/:id
Eliminar(idParam) ==
  LET id == parseInt(idParam)
      index == findIndex(tareas, id)
  IN  /\ req' = [op |-> "Eliminar", id |-> idParam, entrada |-> Undefined]
      /\ previo' = Foto
      /\ IF ~Declarada
         THEN /\ res' = ErrorNoDefinida
              /\ UNCHANGED tareas
         ELSE IF index = 0
         THEN /\ res' = NoEncontrada
              /\ UNCHANGED tareas
         ELSE /\ tareas' = splice(tareas, index)
              /\ res' = [status |-> 200,
                         body |-> [mensaje |-> "Tarea eliminada", tarea |-> tareas[index]]]
      /\ UNCHANGED <<contadorId, creadas>>

\* GET /api/estadisticas
Estadisticas ==
  /\ req' = [op |-> "Estadisticas", id |-> "", entrada |-> Undefined]
  /\ previo' = Foto
  /\ res' = IF Declarada
            THEN [status |-> 200, body |-> Stats(tareas)]
            ELSE ErrorNoDefinida
  /\ UNCHANGED <<tareas, contadorId, creadas>>

\* app.use((req, res) => ...): any request no route matches
RutaNoEncontrada ==
  /\ req' = [op |-> "Otra", id |-> "", entrada |-> Undefined]
  /\ previo' = Foto
  /\ res' = [status |-> 404, body |-> [error |-> "Ruta no encontrada"]]
  /\ UNCHANGED <<tareas, contadorId, creadas>>

Next ==
  \/ \E query \in Consultas : Listar(query)
  \/ \E idParam \in IdParams : Obtener(idParam)
  \/ \E body \in CuerposCrear, ahora \in Fechas : Crear(body, ahora)
  \/ \E idParam \in IdParams, campos \in SUBSET CamposCuerpo, completada \in {True, "si"} :
       Actualizar(idParam, CuerpoActualizar(campos, completada))
  \/ \E idParam \in IdParams : Alternar(idParam)
  \/ \E idParam \in IdParams : Eliminar(idParam)
  \/ Estadisticas
  \/ RutaNoEncontrada

Spec == Init /\ [][Next]_vars

----------------------------------------------------------------------------
\* Properties.

\* No handler that evaluates tareas ever answers with a success status, and
\* the array is never written: every request that reaches the collection ends
\* in the ReferenceError.
NingunaRespuestaExitosa ==
  /\ res.status \notin {200, 201}
  /\ tareas = <<>>
  /\ creadas = 0

\* A property of a request body is absent or empty.
AusenteOVacio(v) == v \in {Undefined, ""}

\* C2: a Create request in which titulo, categoria or prioridad is absent or
\* empty is answered 400 and leaves both the collection and the id counter
\* exactly as they were before the request.
C2_CrearInvalidoNoCambiaNada ==
  (/\ req.op = "Crear"
   /\ \/ AusenteOVacio(req.entrada.titulo)
      \/ AusenteOVacio(req.entrada.categoria)
      \/ AusenteOVacio(req.entrada.prioridad))
  => /\ res.status = 400
     /\ tareas = previo.tareas
     /\ contadorId = previo.contadorId

\* C2 witness: after the counter has moved, a Create whose only fault is an
\* empty prioridad has been answered 400.
C2_Witness ==
  /\ req.op = "Crear"
  /\ req.entrada.titulo = "Comprar leche"
  /\ req.entrada.categoria = "Trabajo"
  /\ req.entrada.prioridad = ""
  /\ res.status = 400
  /\ contadorId > SemillaId

\* C3: the id counter equals its seed plus the number of Create calls that
\* have succeeded so far (a Create that does not succeed leaves it alone).
C3_ContadorCuentaLosExitos ==
  contadorId = SemillaId + creadas

\* Whether some task of the collection ts has the id that idParam names.
ExisteId(ts, idParam) ==
  \E i \in 1..Len(ts) : IgualEstricto(ts[i].id, parseInt(idParam))

\* C4: Get, Update, ToggleCompleted and Delete with an id that no task of the
\* collection has are answered 404 and leave the collection unchanged.
C4_IdInexistenteEs404 ==
  (/\ req.op \in {"Obtener", "Actualizar", "Alternar", "Eliminar"}
   /\ ~ExisteId(previo.tareas, req.id))
  => /\ res.status = 404
     /\ tareas = previo.tareas

RECURSIVE Suma(_)
\* The sum of the counts of a porCategoria mapping.
Suma(f) ==
  IF DOMAIN f = {} THEN 0
  ELSE LET k == CHOOSE k \in DOMAIN f : TRUE
       IN  f[k] + Suma([j \in (DOMAIN f) \ {k} |-> f[j]])

\* C8: Statistics answers without error in every reachable state, with
\* total = completadas + pendientes and the porCategoria counts summing to
\* total; on the empty collection it answers zeros and an empty mapping.
C8_EstadisticasResponde ==
  (req.op = "Estadisticas")
  => /\ res.status = 200
     /\ res.body.total = res.body.completadas + res.body.pendientes
     /\ Suma(res.body.porCategoria) = res.body.total
     /\ (previo.tareas = <<>> =>
           /\ res.body.total = 0
           /\ res.body.completadas = 0
           /\ res.body.pendientes = 0
           /\ DOMAIN res.body.porCategoria = {})

\* A task matches every filter the query supplies.
Coincide(t, query) ==
  /\ (query.categoria # Undefined => t.categoria = query.categoria)
  /\ (query.prioridad # Undefined => t.prioridad = query.prioridad)
  /\ (query.completada # Undefined =>
        t.completada = (IF query.completada = "true" THEN True ELSE False))

\* C9: List never errors, from the state at process start on: it answers with
\* exactly the tasks that match every supplied filter, in collection order.
C9_ListarResponde ==
  (req.op = "Listar")
  => /\ res.status = 200
     /\ res.body = SelectSeq(previo.tareas, LAMBDA t : Coincide(t, req.entrada))

====
